---- MODULE Spec2Model ----
(***************************************************************************)
(* Model of the Docling command-line converter (Plugins/Docling):          *)
(* the single-file `convert` command, the `batch` command, `info --file`   *)
(* and `scan`, with the file handler (validation, discovery, output-path   *)
(* resolution, save) and the configuration (extension map, type            *)
(* detection) they use.                                                    *)
(*                                                                         *)
(* One behaviour is one invocation of one command on an output directory   *)
(* that earlier invocations may have populated.                            *)
(***************************************************************************)
EXTENDS Integers, Sequences, FiniteSets, TLC

(***************************************************************************)
(* Bounds of the model.                                                    *)
(***************************************************************************)
\* Highest numeric suffix of the files earlier runs left in a row; the model
\* also tries one directory with a gap behind the first file.
MaxSuffix == 1
\* The small value of --max-files that the model tries beside the default.
SmallMaxFiles == 1

(***************************************************************************)
(* config.py                                                               *)
(***************************************************************************)
DocTypes == <<"excel", "word", "powerpoint">>

SUPPORTED_EXTENSIONS ==
    [excel      |-> {".xlsx", ".xls"},
     word       |-> {".docx", ".doc"},
     powerpoint |-> {".pptx", ".ppt"}]

OUTPUT_FORMATS == {"markdown", "html", "json"}

MAX_FILE_SIZE_MB == 100

DEFAULT_MAX_FILES == 50

\* str.lower() on the extensions the model's paths carry.
Lower(ext) ==
    CASE ext = ".XLSX" -> ".xlsx"
      [] ext = ".Xlsx" -> ".xlsx"
      [] ext = ".XLS"  -> ".xls"
      [] ext = ".DOCX" -> ".docx"
      [] ext = ".DOC"  -> ".doc"
      [] ext = ".dOc"  -> ".doc"
      [] ext = ".PPTX" -> ".pptx"
      [] ext = ".PPT"  -> ".ppt"
      [] ext = ".pPt"  -> ".ppt"
      [] ext = ".TXT"  -> ".txt"
      [] ext = ".XLSM" -> ".xlsm"
      [] OTHER -> ext

get_all_supported_extensions ==
    UNION {SUPPORTED_EXTENSIONS[t] : t \in DOMAIN SUPPORTED_EXTENSIONS}

\* SupportedExtensionList with an extension no document type owns.
SupportedExtensionList_and_txt ==
    <<".xlsx", ".xls", ".docx", ".doc", ".pptx", ".ppt", ".txt">>

\* The same extensions as the list the method builds, in the mapping's order.
SupportedExtensionList == <<".xlsx", ".xls", ".docx", ".doc", ".pptx", ".ppt">>

RECURSIVE DetectFrom(_, _)
\* The loop of detect_document_type over the items of the mapping, in order.
DetectFrom(file_ext, i) ==
    IF i > Len(DocTypes) THEN "unknown"
    ELSE IF file_ext \in SUPPORTED_EXTENSIONS[DocTypes[i]] THEN DocTypes[i]
    ELSE DetectFrom(file_ext, i + 1)

\* detect_document_type without the .lower() of the suffix.
detect_document_type_as_written(f) == DetectFrom(f.ext, 1)

detect_document_type(f) == DetectFrom(Lower(f.ext), 1)

\* is_supported_file that also accepts an extension no type owns.
is_supported_file_and_xlsm(f) ==
    Lower(f.ext) \in get_all_supported_extensions \cup {".xlsm"}

is_supported_file(f) == Lower(f.ext) \in get_all_supported_extensions

(***************************************************************************)
(* The input tree: the paths a command can be given.  A stem is a base     *)
(* name and the numbers that follow it, so that the stem report_1 and the  *)
(* stem report with suffix 1 give the same file name.  The entries that    *)
(* one directory tree holds are listed in the lexicographic order of their *)
(* full paths (old/deep/report.docx before old/report.docx).               *)
(***************************************************************************)
Stem(base, nums) == [base |-> base, nums |-> nums]

Entry ==
    << [stem |-> Stem("REPORT", <<>>),   ext |-> ".XLSX", kind |-> "file", size |-> 2048],
       [stem |-> Stem("big", <<>>),      ext |-> ".xlsx", kind |-> "file", size |-> 104857601],
       [stem |-> Stem("docs", <<>>),     ext |-> ".xlsx", kind |-> "dir",  size |-> 4096],
       [stem |-> Stem("notes", <<>>),    ext |-> ".txt",  kind |-> "file", size |-> 10],
       [stem |-> Stem("report", <<>>),   ext |-> ".docx", kind |-> "file", size |-> 2048],
       [stem |-> Stem("report", <<>>),   ext |-> ".pptx", kind |-> "file", size |-> 2048],
       [stem |-> Stem("report", <<>>),   ext |-> ".xlsx", kind |-> "file", size |-> 104857600],
       [stem |-> Stem("report", <<1>>),  ext |-> ".xls",  kind |-> "file", size |-> 2048],
       [stem |-> Stem("report", <<>>),   ext |-> ".docx", kind |-> "file", size |-> 2048],
       [stem |-> Stem("report", <<>>),   ext |-> ".docx", kind |-> "file", size |-> 4096] >>

Entries == DOMAIN Entry

\* The directories, each with the entries it holds directly.  nodocs holds
\* notes.txt and the subdirectory old, which holds report.docx and the
\* subdirectory deep, which holds another report.docx.
InputDirs ==
    [nodocs |-> {4},
     same   |-> {5, 6, 7},
     mixed  |-> {1, 2, 3, 7, 8},
     old    |-> {10},
     deep   |-> {9},
     gone   |-> {},
     plain  |-> {}]

SubDirs ==
    [nodocs |-> {"old"}, same |-> {}, mixed |-> {}, old |-> {"deep"},
     deep |-> {}, gone |-> {}, plain |-> {}]

\* What is found at the directory's path: gone was removed after the command
\* line was checked, plain is a regular file.
DirKind ==
    [nodocs |-> "dir", same |-> "dir", mixed |-> "dir", old |-> "dir",
     deep |-> "dir", gone |-> "missing", plain |-> "file"]

\* The directories `batch` is pointed at.
BatchDirs == {"nodocs", "same", "mixed"}

RECURSIVE Under(_)
\* The entries of a directory and of all the directories below it.
Under(dir) == InputDirs[dir] \cup UNION {Under(d) : d \in SubDirs[dir]}

(***************************************************************************)
(* Contents.  A content names the document it was converted from, the      *)
(* converter method that produced it, the transforms applied to it in      *)
(* order, and whether it is whole (a truncated write leaves it not whole). *)
(***************************************************************************)
Content(doc, fmt, tr) == [doc |-> doc, fmt |-> fmt, tr |-> tr, whole |-> TRUE]

NoContent == [doc |-> 0, fmt |-> "none", tr |-> <<>>, whole |-> FALSE]
Raised    == [doc |-> 0, fmt |-> "raised", tr |-> <<>>, whole |-> FALSE]
OldContent == [doc |-> 0, fmt |-> "old", tr |-> <<>>, whole |-> TRUE]

Truncated(c) == [c EXCEPT !.whole = FALSE]

(***************************************************************************)
(* utils/file_handler.py                                                   *)
(***************************************************************************)
FileSizeLimit == MAX_FILE_SIZE_MB * 1024 * 1024

\* validate_input_file that rejects a file of exactly the maximum size.
validate_input_file_below_limit(f) ==
    IF f.kind = "missing" THEN [ok |-> FALSE, err |-> "File not found"]
    ELSE IF f.kind # "file" THEN [ok |-> FALSE, err |-> "Path is not a file"]
    ELSE IF f.size >= FileSizeLimit THEN [ok |-> FALSE, err |-> "File too large"]
    ELSE IF ~is_supported_file(f) THEN [ok |-> FALSE, err |-> "Unsupported file type"]
    ELSE [ok |-> TRUE, err |-> ""]

\* validate_input_file: (is_valid, error_message)
validate_input_file(f) ==
    IF f.kind = "missing" THEN [ok |-> FALSE, err |-> "File not found"]
    ELSE IF f.kind # "file" THEN [ok |-> FALSE, err |-> "Path is not a file"]
    ELSE IF f.size > FileSizeLimit THEN [ok |-> FALSE, err |-> "File too large"]
    ELSE IF ~is_supported_file(f) THEN [ok |-> FALSE, err |-> "Unsupported file type"]
    ELSE [ok |-> TRUE, err |-> ""]

RECURSIVE SortedFrom(_, _)
\* sorted(): the members of the set s, from index i on, in path order.
SortedFrom(s, i) ==
    IF i > Len(Entry) THEN <<>>
    ELSE IF i \in s THEN <<i>> \o SortedFrom(s, i + 1)
    ELSE SortedFrom(s, i + 1)

\* The entries the pattern reaches: the directory's own with "*<ext>", those
\* of the whole tree with "**/*<ext>" and recursive=True.
InScope(dir, recursive) == IF recursive THEN Under(dir) ELSE InputDirs[dir]

\* glob.glob of the pattern for one extension: names are matched as written.
Glob(dir, recursive, ext) ==
    SortedFrom({i \in InScope(dir, recursive) : Entry[i].ext = ext}, 1)

RECURSIVE GlobFrom(_, _, _)
\* supported_files after the loop over the extensions, from the k-th on.
GlobFrom(dir, recursive, k) ==
    IF k > Len(SupportedExtensionList) THEN <<>>
    ELSE Glob(dir, recursive, SupportedExtensionList[k])
            \o GlobFrom(dir, recursive, k + 1)

RECURSIVE Insert(_, _)
Insert(x, s) ==
    IF s = <<>> THEN <<x>>
    ELSE IF x <= Head(s) THEN <<x>> \o s
    ELSE <<Head(s)>> \o Insert(x, Tail(s))

RECURSIVE sorted(_)
\* sorted(supported_files): ascending path order, equal elements kept.
sorted(s) == IF s = <<>> THEN <<>> ELSE Insert(Head(s), sorted(Tail(s)))

\* find_files_in_directory without the final sort.
find_files_in_directory_unsorted(dir, recursive) ==
    IF DirKind[dir] # "dir" THEN <<>> ELSE GlobFrom(dir, recursive, 1)

find_files_in_directory(dir, recursive) ==
    IF DirKind[dir] # "dir" THEN <<>> ELSE sorted(GlobFrom(dir, recursive, 1))

ExtOf(output_format) ==
    CASE output_format = "markdown" -> ".md"
      [] output_format = "html" -> ".html"
      [] output_format = "json" -> ".json"
      [] OTHER -> ".txt"

\* f"{base_name}{ext}" for k = 0 and f"{base_name}_{counter}{ext}" otherwise.
Name(stem, k, ext) ==
    [base |-> stem.base,
     nums |-> IF k = 0 THEN stem.nums ELSE Append(stem.nums, k),
     ext  |-> ext]

NA == [base |-> "N/A", nums |-> <<>>, ext |-> ""]

Exists(fs, p) == p \in DOMAIN fs.files

RECURSIVE SuffixSearch(_, _, _, _)
\* The while loop of create_output_path, entered with output_file existing.
SuffixSearch(fs, stem, ext, counter) ==
    LET output_file == Name(stem, counter, ext)
    IN  IF Exists(fs, output_file)
        THEN SuffixSearch(fs, stem, ext, counter + 1)
        ELSE output_file

\* create_output_path without the loop over the numbered names.
create_output_path_noloop(fs, stem, output_format) ==
    Name(stem, 0, ExtOf(output_format))

\* create_output_path with the counter starting at 2.
create_output_path_from2(fs, stem, output_format) ==
    LET ext == ExtOf(output_format)
        output_file == Name(stem, 0, ext)
    IN  IF Exists(fs, output_file)
        THEN SuffixSearch(fs, stem, ext, 2)
        ELSE output_file

\* create_output_path with an if in place of the while: one numbered name tried.
create_output_path_once(fs, stem, output_format) ==
    LET ext == ExtOf(output_format)
        output_file == Name(stem, 0, ext)
    IN  IF Exists(fs, output_file)
        THEN Name(stem, 1, ext)
        ELSE output_file

\* The path create_output_path returns.
create_output_path(fs, stem, output_format) ==
    LET ext == ExtOf(output_format)
        output_file == Name(stem, 0, ext)
    IN  IF Exists(fs, output_file)
        THEN SuffixSearch(fs, stem, ext, 1)
        ELSE output_file

\* create_output_path_fs that also creates the (empty) output file.
create_output_path_fs_touch(fs, stem, output_format) ==
    [fs EXCEPT !.dir = TRUE,
               !.files = (create_output_path(fs, stem, output_format) :> NoContent)
                             @@ fs.files]

\* The file system create_output_path leaves: mkdir(parents, exist_ok) only.
create_output_path_fs(fs, stem, output_format) == [fs EXCEPT !.dir = TRUE]

WriteFile(fs, p, c) == [fs EXCEPT !.files = (p :> c) @@ fs.files]

\* save_output: the outcomes of open(path, 'w') followed by write(content):
\* written, open failed (nothing created), write failed (file left cut short).
save_output(fs, content, p) ==
    { [ok |-> TRUE,  fs |-> WriteFile(fs, p, content)],
      [ok |-> FALSE, fs |-> fs],
      [ok |-> FALSE, fs |-> WriteFile(fs, p, Truncated(content))] }

(***************************************************************************)
(* The converters and the Markdown post-processor.  With backend = "mock"  *)
(* the import of docling.backend failed and the commands run on the        *)
(* stand-ins they define; with backend = "real" they run on the backend.   *)
(***************************************************************************)
Backends == {"real", "mock"}

\* The backend converters: the JSON capability each type's converter declares.
RealHasJson(doc_type) == doc_type = "excel"

\* MockConverter defines convert_to_json, and stands in for all three types.
MockHasJson(doc_type) == TRUE

\* hasattr(converter, 'convert_to_json') for converters[doc_type].
HasConvertToJson(be, doc_type) ==
    IF be = "mock" THEN MockHasJson(doc_type) ELSE RealHasJson(doc_type)

\* converters.get(doc_type): the dictionary holds the three types.
HasConverter(doc_type) == doc_type \in {"excel", "word", "powerpoint"}

\* A backend converter method returns a text or raises.
RealConvert(method, doc) == {Content(doc, method, <<>>), Raised}

\* MockConverter's methods: the md and html texts name the file, the json
\* text is the same for every file; none raises.
MockConvert(method, doc) ==
    {Content(IF method = "convert_to_json" THEN 0 ELSE doc, method, <<>>)}

ConverterCall(be, method, doc) ==
    IF be = "mock" THEN MockConvert(method, doc) ELSE RealConvert(method, doc)

\* A backend transform returns the transformed text or raises.
RealTransform(op, c) == {[c EXCEPT !.tr = Append(@, op)], Raised}

\* The mock processor's transforms return their input.
MockTransform(op, c) == {c}

ProcessorCall(be, op, c) ==
    IF be = "mock" THEN MockTransform(op, c) ELSE RealTransform(op, c)

(***************************************************************************)
(* State.                                                                  *)
(***************************************************************************)
VARIABLES
    backend,        \* which converters the import block bound
    fsys,           \* the output directory: [dir, files]
    fsys0,          \* the output directory as the command found it
    cmd,            \* "none", "convert" or "batch"
    pc,             \* the command's position
    args,           \* the command's arguments
    files_to_convert, \* batch: the files of the loop
    idx,            \* batch: the position of the file in progress (1-based)
    doc_type,       \* the type detected for the file in progress
    output_file,    \* the path resolved for the file in progress
    converted_content, \* the content converted so far for the file in progress
    results,        \* batch: the result records
    successful_conversions, \* batch: the counter of successes
    exit_code,      \* -1 while running, then the process exit code
    calls,          \* log of the calls made to converters, processor, file handler
    printed,        \* the kinds of message the command has printed
    start_time,     \* batch: the clock when the file in progress was started
    is_valid,       \* info: what validate_input_file returned
    files,          \* scan: what find_files_in_directory returned
    interrupted     \* whether the user interrupted the command

vars == <<backend, fsys, fsys0, cmd, pc, args, files_to_convert, idx, doc_type,
          output_file, converted_content, results, successful_conversions,
          exit_code, calls, printed, start_time, is_valid, files, interrupted>>

FlagSets ==
    [remove_images : BOOLEAN, encode_images_base64 : BOOLEAN,
     ocr_images : BOOLEAN, convert_math_to_latex : BOOLEAN]

\* The flag sets tried with an output format: all of them with markdown, the
\* format the flags are read for, and the two extremes with the others.
FlagChoices(fmt) ==
    IF fmt = "markdown" THEN FlagSets
    ELSE {f \in FlagSets :
            /\ f.encode_images_base64 = f.remove_images
            /\ f.ocr_images = f.remove_images
            /\ f.convert_math_to_latex = f.remove_images}

\* The values of --max-files tried: click's int accepts negative ones too.
MaxFilesChoices == {-1, SmallMaxFiles, DEFAULT_MAX_FILES}

\* The values of --recursive tried: both where there is a subdirectory.
RecursiveChoices(dir) == IF SubDirs[dir] = {} THEN {FALSE} ELSE BOOLEAN

\* The files `convert` is pointed at.
ConvertInputs == UNION {InputDirs[d] : d \in BatchDirs}

\* The output directories a command can find: absent, or holding the files
\* report, report_1, ... of earlier runs, in a row or with one gap.
OccupiedChoices == SUBSET (0..MaxSuffix) \cup {{0, MaxSuffix + 1}}

Call(pos, op, in, out, path) ==
    [pos |-> pos, op |-> op, in |-> in, out |-> out, path |-> path]

\* The file names earlier runs may have left: report, report_1, ... in each format.
OldFiles(occupied) ==
    {Name(Stem("report", <<>>), k, e) : k \in occupied, e \in {".md", ".html", ".json"}}

Init ==
    /\ backend \in Backends
    /\ \E d \in BOOLEAN, occupied \in OccupiedChoices :
          /\ (~d => occupied = {})
          /\ fsys = [dir |-> d, files |-> [p \in OldFiles(occupied) |-> OldContent]]
    /\ fsys0 = fsys
    /\ cmd = "none"
    /\ pc = "idle"
    /\ args = [input |-> 0]
    /\ files_to_convert = <<>>
    /\ idx = 0
    /\ doc_type = "none"
    /\ output_file = NA
    /\ converted_content = NoContent
    /\ results = <<>>
    /\ successful_conversions = 0
    /\ exit_code = -1
    /\ calls = <<>>
    /\ printed = {}
    /\ start_time = 0
    /\ is_valid = [ok |-> FALSE, err |-> "none"]
    /\ files = <<>>
    /\ interrupted = FALSE

AnyFlag(a) ==
    \/ a.remove_images \/ a.encode_images_base64
    \/ a.ocr_images \/ a.convert_math_to_latex

(***************************************************************************)
(* commands/batch.py                                                       *)
(***************************************************************************)
\* batch_image_transform with the chain in the opposite order.
batch_image_transform_reversed(a) ==
    IF a.ocr_images THEN "ocr_images"
    ELSE IF a.encode_images_base64 THEN "encode_images_base64"
    ELSE IF a.remove_images THEN "remove_images"
    ELSE "none"

\* The first of the three image transforms selected, in the order of the
\* if / elif chain; "none" when none is.
batch_image_transform(a) ==
    IF a.remove_images THEN "remove_images"
    ELSE IF a.encode_images_base64 THEN "encode_images_base64"
    ELSE IF a.ocr_images THEN "ocr_images"
    ELSE "none"

\* Whether the chain ends with the math-to-LaTeX transform.
batch_math_transform(a) == a.convert_math_to_latex

\* batch_after_convert with the test of the output format left out.
batch_after_convert_anyformat(a) ==
    IF AnyFlag(a) THEN "post_image" ELSE "save"

\* The position a batch continues at after a converter call returned.
batch_after_convert(a) ==
    IF a.output_format = "markdown" /\ AnyFlag(a) THEN "post_image" ELSE "save"

\* batch_json_supported with the capability check left out.
batch_json_supported_always(be, dt) == TRUE

\* The check of the json branch: hasattr(converter, 'convert_to_json').
batch_json_supported(be, dt) == HasConvertToJson(be, dt)

\* batch_after_error that resumes the file's pipeline at the save.
batch_after_error_resume(a) == "save"

\* batch_after_error without the break.
batch_after_error_nobreak(a) == "loop"

\* batch_after_error that starts the failed file over.
batch_after_error_retry(a) == "validate"

\* The position the except block leaves the loop at.
batch_after_error(a) == IF ~a.continue_on_error THEN "summary" ELSE "loop"

\* batch_exit_code without the test of continue_on_error.
batch_exit_code_anyfailure(failed_conversions, a) ==
    IF failed_conversions > 0 THEN 1 ELSE 0

\* The exit code of the final statistics.
batch_exit_code(failed_conversions, a) ==
    IF failed_conversions > 0 /\ ~a.continue_on_error THEN 1 ELSE 0

\* s[:m], a Python slice: the first m elements, or for a negative m all but
\* the last -m.
SliceTo(s, m) ==
    IF m >= 0 THEN SubSeq(s, 1, IF m < Len(s) THEN m ELSE Len(s))
    ELSE SubSeq(s, 1, IF Len(s) + m > 0 THEN Len(s) + m ELSE 0)

\* Whether the file list is cut: len(files_to_convert) > max_files.
batch_truncates(found, max_files) == Len(found) > max_files

\* files_to_convert after the limit was applied.
Limit(found, max_files) ==
    IF batch_truncates(found, max_files) THEN SliceTo(found, max_files) ELSE found

\* batch_no_files that never takes the early return.
batch_no_files_never(found) == FALSE

\* `if not files_to_convert`: the early return of a batch that found nothing.
batch_no_files(found) == found = <<>>

\* time.time(), as a logical clock: the number of calls made so far.
Now == Len(calls)

\* batch_count_success that counts a success twice.
batch_count_success_twice(n) == n + 2

\* successful_conversions += 1, ahead of the record to be appended.
batch_count_success(n) == n + 1

\* batch_processing_time that forgets the start time.
batch_processing_time_absolute(now, start) == now

\* processing_time = time.time() - start_time
batch_processing_time(now, start) == now - start

\* CurFile of a loop that never leaves its first file.
CurFile_first == IF cmd = "batch" THEN files_to_convert[1] ELSE args.input

CurFile == IF cmd = "batch" THEN files_to_convert[idx] ELSE args.input

Log(op, in, out, path) ==
    calls' = Append(calls, Call(IF cmd = "batch" THEN idx ELSE 0, op, in, out, path))

\* The except block of the loop: record the failure, stop unless continuing.
BatchExcept(error_msg) ==
    /\ results' = Append(results,
          [input_file |-> CurFile, output_file |-> NA, success |-> FALSE,
           error |-> error_msg,
           processing_time |-> batch_processing_time(Len(calls'), start_time)])
    /\ pc' = batch_after_error(args)

Batch_Start(dir, recursive, fmt, flags, coe, maxf) ==
    /\ pc = "idle"
    /\ cmd' = "batch"
    /\ args' = [input |-> dir, recursive |-> recursive, output_format |-> fmt,
                remove_images |-> flags.remove_images,
                encode_images_base64 |-> flags.encode_images_base64,
                ocr_images |-> flags.ocr_images,
                convert_math_to_latex |-> flags.convert_math_to_latex,
                max_files |-> maxf, continue_on_error |-> coe]
    /\ LET found == find_files_in_directory(dir, recursive)
       IN  IF batch_no_files(found)
           THEN /\ files_to_convert' = found
                /\ printed' = {"no_files_warning"}
                /\ pc' = "done"
                /\ exit_code' = 0
                /\ UNCHANGED calls
           ELSE /\ files_to_convert' = Limit(found, maxf)
                /\ printed' = IF batch_truncates(found, maxf)
                               THEN {"limit_warning"} ELSE {}
                /\ calls' = <<Call(0, "converters", NoContent, NoContent, NA)>>
                /\ pc' = "loop"
                /\ exit_code' = -1
    /\ results' = <<>>
    /\ successful_conversions' = 0
    /\ idx' = 0
    /\ UNCHANGED <<backend, start_time, is_valid, files, interrupted, fsys,
                   fsys0, doc_type, output_file, converted_content>>

Batch_NextFile ==
    /\ cmd = "batch" /\ pc = "loop"
    /\ idx < Len(files_to_convert)
    /\ idx' = idx + 1
    /\ start_time' = Now
    /\ pc' = "validate"
    /\ UNCHANGED <<backend, printed, is_valid, files, interrupted, fsys, fsys0, cmd, args, files_to_convert, doc_type,
                   output_file, converted_content, results,
                   successful_conversions, exit_code, calls>>

Batch_Validate ==
    /\ cmd = "batch" /\ pc = "validate"
    /\ LET v == validate_input_file(Entry[CurFile])
       IN  /\ Log("validate_input_file", NoContent, NoContent, NA)
           /\ IF ~v.ok
              THEN BatchExcept(v.err)
              ELSE pc' = "classify" /\ UNCHANGED results
    /\ UNCHANGED <<backend, printed, start_time, is_valid, files, interrupted, fsys, fsys0, cmd, args, files_to_convert, idx,
                   doc_type, output_file, converted_content,
                   successful_conversions, exit_code>>

Batch_Classify ==
    /\ cmd = "batch" /\ pc = "classify"
    /\ doc_type' = detect_document_type(Entry[CurFile])
    /\ UNCHANGED calls
    /\ IF ~HasConverter(doc_type')
       THEN BatchExcept("No converter available for document type")
       ELSE pc' = "resolve" /\ UNCHANGED results
    /\ UNCHANGED <<backend, printed, start_time, is_valid, files, interrupted, fsys, fsys0, cmd, args, files_to_convert, idx,
                   output_file, converted_content, successful_conversions,
                   exit_code>>

Batch_Resolve ==
    /\ cmd = "batch" /\ pc = "resolve"
    /\ output_file' = create_output_path(fsys, Entry[CurFile].stem, args.output_format)
    /\ fsys' = create_output_path_fs(fsys, Entry[CurFile].stem, args.output_format)
    /\ Log("create_output_path", NoContent, NoContent, output_file')
    /\ pc' = "convert"
    /\ UNCHANGED <<backend, printed, start_time, is_valid, files, interrupted, fsys0, cmd, args, files_to_convert, idx, doc_type,
                   converted_content, results, successful_conversions, exit_code>>

\* BatchConverterCall that swallows the converter's exception and goes on.
BatchConverterCall_swallowing(method) ==
    \E out \in ConverterCall(backend, method, CurFile) :
        /\ Log(method, NoContent, out, NA)
        /\ converted_content' = out
        /\ pc' = batch_after_convert(args)
        /\ UNCHANGED results

\* One call of a converter method, and what the loop does with its outcome.
BatchConverterCall(method) ==
    \E out \in ConverterCall(backend, method, CurFile) :
        /\ Log(method, NoContent, out, NA)
        /\ IF out = Raised
           THEN BatchExcept("converter error") /\ UNCHANGED converted_content
           ELSE /\ converted_content' = out
                /\ pc' = batch_after_convert(args)
                /\ UNCHANGED results

Batch_Convert ==
    /\ cmd = "batch" /\ pc = "convert"
    /\ CASE args.output_format = "markdown" -> BatchConverterCall("convert_to_md")
         [] args.output_format = "html" -> BatchConverterCall("convert_to_html")
         [] args.output_format = "json" ->
              IF ~batch_json_supported(backend, doc_type)
              THEN /\ UNCHANGED <<converted_content, calls>>
                   /\ BatchExcept("JSON conversion not supported")
              ELSE BatchConverterCall("convert_to_json")
    /\ UNCHANGED <<backend, printed, start_time, is_valid, files, interrupted, fsys, fsys0, cmd, args, files_to_convert, idx,
                   doc_type, output_file, successful_conversions, exit_code>>

\* BatchProcessorCall that passes the markdown on when the transform raises.
BatchProcessorCall_passthrough(op, next) ==
    \E out \in ProcessorCall(backend, op, converted_content) :
        /\ Log(op, converted_content, out, NA)
        /\ converted_content' = IF out = Raised THEN converted_content ELSE out
        /\ pc' = next
        /\ UNCHANGED results

\* One call of a post-processor transform, then on to position `next`.
BatchProcessorCall(op, next) ==
    \E out \in ProcessorCall(backend, op, converted_content) :
        /\ Log(op, converted_content, out, NA)
        /\ IF out = Raised
           THEN BatchExcept("post-processor error") /\ UNCHANGED converted_content
           ELSE /\ converted_content' = out
                /\ pc' = next
                /\ UNCHANGED results

Batch_PostImage ==
    /\ cmd = "batch" /\ pc = "post_image"
    /\ LET op == batch_image_transform(args)
       IN  IF op = "none"
           THEN /\ pc' = "post_math"
                /\ UNCHANGED <<converted_content, results, calls>>
           ELSE BatchProcessorCall(op, "post_math")
    /\ UNCHANGED <<backend, printed, start_time, is_valid, files, interrupted, fsys, fsys0, cmd, args, files_to_convert, idx,
                   doc_type, output_file, successful_conversions, exit_code>>

Batch_PostMath ==
    /\ cmd = "batch" /\ pc = "post_math"
    /\ IF batch_math_transform(args)
       THEN BatchProcessorCall("convert_plain_math_to_latex", "save")
       ELSE /\ pc' = "save"
            /\ UNCHANGED <<converted_content, results, calls>>
    /\ UNCHANGED <<backend, printed, start_time, is_valid, files, interrupted, fsys, fsys0, cmd, args, files_to_convert, idx,
                   doc_type, output_file, successful_conversions, exit_code>>

Batch_Save ==
    /\ cmd = "batch" /\ pc = "save"
    /\ \E r \in save_output(fsys, converted_content, output_file) :
          /\ fsys' = r.fs
          /\ Log("save_output", converted_content, NoContent, output_file)
          /\ IF ~r.ok
             THEN /\ BatchExcept("Failed to save output")
                  /\ UNCHANGED successful_conversions
             ELSE /\ successful_conversions' =
                        batch_count_success(successful_conversions)
                  /\ results' = Append(results,
                        [input_file |-> CurFile, output_file |-> output_file,
                         success |-> TRUE, error |-> "None",
                         processing_time |->
                             batch_processing_time(Len(calls'), start_time)])
                  /\ pc' = "loop"
    /\ UNCHANGED <<backend, printed, start_time, is_valid, files, interrupted, fsys0, cmd, args, files_to_convert, idx, doc_type,
                   output_file, converted_content, exit_code>>

\* After the loop (run out, or left by break): summary, statistics, exit code.
Batch_Summary ==
    /\ cmd = "batch"
    /\ \/ pc = "summary"
       \/ pc = "loop" /\ idx = Len(files_to_convert)
    /\ LET failed_conversions == Len(results) - successful_conversions
       IN  exit_code' = batch_exit_code(failed_conversions, args)
    /\ pc' = "done"
    /\ UNCHANGED <<backend, printed, start_time, is_valid, files, interrupted, fsys, fsys0, cmd, args, files_to_convert, idx,
                   doc_type, output_file, converted_content, results,
                   successful_conversions, calls>>

(***************************************************************************)
(* commands/convert.py                                                     *)
(***************************************************************************)
convert_image_transform(a) ==
    IF a.remove_images THEN "remove_images"
    ELSE IF a.encode_images_base64 THEN "encode_images_base64"
    ELSE IF a.ocr_images THEN "ocr_images"
    ELSE "none"

\* convert_math_transform as a further elif of the image chain.
convert_math_transform_elif(a) ==
    a.convert_math_to_latex /\ convert_image_transform(a) = "none"

convert_math_transform(a) == a.convert_math_to_latex

convert_after_convert(a) ==
    IF a.output_format = "markdown" /\ AnyFlag(a) THEN "post_image" ELSE "save"

convert_json_supported(be, dt) == HasConvertToJson(be, dt)

\* convert_save_exit_code with the two outcomes exchanged.
convert_save_exit_code_inverted(saved) == IF saved THEN 1 ELSE 0

\* The exit code after the save: the command returns, or sys.exit(1).
convert_save_exit_code(saved) == IF saved THEN 0 ELSE 1

\* sys.exit(1): the command ends with exit code 1.
ConvertExit1 ==
    /\ exit_code' = 1
    /\ pc' = "done"

Convert_Start(input, fmt, flags) ==
    /\ pc = "idle"
    /\ cmd' = "convert"
    /\ args' = [input |-> input, output_format |-> fmt,
                remove_images |-> flags.remove_images,
                encode_images_base64 |-> flags.encode_images_base64,
                ocr_images |-> flags.ocr_images,
                convert_math_to_latex |-> flags.convert_math_to_latex]
    /\ pc' = "validate"
    /\ UNCHANGED <<backend, printed, start_time, is_valid, files, interrupted, fsys, fsys0, files_to_convert, idx, doc_type,
                   output_file, converted_content, results,
                   successful_conversions, exit_code, calls>>

Convert_Validate ==
    /\ cmd = "convert" /\ pc = "validate"
    /\ LET v == validate_input_file(Entry[CurFile])
       IN  /\ Log("validate_input_file", NoContent, NoContent, NA)
           /\ IF ~v.ok
              THEN ConvertExit1
              ELSE pc' = "classify" /\ UNCHANGED exit_code
    /\ UNCHANGED <<backend, printed, start_time, is_valid, files, interrupted, fsys, fsys0, cmd, args, files_to_convert, idx,
                   doc_type, output_file, converted_content, results,
                   successful_conversions>>

Convert_Classify ==
    /\ cmd = "convert" /\ pc = "classify"
    /\ doc_type' = detect_document_type(Entry[CurFile])
    /\ IF ~HasConverter(doc_type')
       THEN ConvertExit1
       ELSE pc' = "resolve" /\ UNCHANGED exit_code
    /\ UNCHANGED <<backend, printed, start_time, is_valid, files, interrupted, fsys, fsys0, cmd, args, files_to_convert, idx,
                   output_file, converted_content, results,
                   successful_conversions, calls>>

Convert_Resolve ==
    /\ cmd = "convert" /\ pc = "resolve"
    /\ output_file' = create_output_path(fsys, Entry[CurFile].stem, args.output_format)
    /\ fsys' = create_output_path_fs(fsys, Entry[CurFile].stem, args.output_format)
    /\ Log("create_output_path", NoContent, NoContent, output_file')
    /\ pc' = "convert"
    /\ UNCHANGED <<backend, printed, start_time, is_valid, files, interrupted, fsys0, cmd, args, files_to_convert, idx, doc_type,
                   converted_content, results, successful_conversions, exit_code>>

\* One call of a converter method; an exception ends in the except clauses.
ConvertConverterCall(method) ==
    \E out \in ConverterCall(backend, method, CurFile) :
        /\ Log(method, NoContent, out, NA)
        /\ IF out = Raised
           THEN ConvertExit1 /\ UNCHANGED converted_content
           ELSE /\ converted_content' = out
                /\ pc' = convert_after_convert(args)
                /\ UNCHANGED exit_code

Convert_Convert ==
    /\ cmd = "convert" /\ pc = "convert"
    /\ CASE args.output_format = "markdown" -> ConvertConverterCall("convert_to_md")
         [] args.output_format = "html" -> ConvertConverterCall("convert_to_html")
         [] args.output_format = "json" ->
              IF ~convert_json_supported(backend, doc_type)
              THEN ConvertExit1 /\ UNCHANGED <<converted_content, calls>>
              ELSE ConvertConverterCall("convert_to_json")
    /\ UNCHANGED <<backend, printed, start_time, is_valid, files, interrupted, fsys, fsys0, cmd, args, files_to_convert, idx,
                   doc_type, output_file, results, successful_conversions>>

ConvertProcessorCall(op, next) ==
    \E out \in ProcessorCall(backend, op, converted_content) :
        /\ Log(op, converted_content, out, NA)
        /\ IF out = Raised
           THEN ConvertExit1 /\ UNCHANGED converted_content
           ELSE /\ converted_content' = out
                /\ pc' = next
                /\ UNCHANGED exit_code

Convert_PostImage ==
    /\ cmd = "convert" /\ pc = "post_image"
    /\ LET op == convert_image_transform(args)
       IN  IF op = "none"
           THEN /\ pc' = "post_math"
                /\ UNCHANGED <<converted_content, exit_code, calls>>
           ELSE ConvertProcessorCall(op, "post_math")
    /\ UNCHANGED <<backend, printed, start_time, is_valid, files, interrupted, fsys, fsys0, cmd, args, files_to_convert, idx,
                   doc_type, output_file, results, successful_conversions>>

Convert_PostMath ==
    /\ cmd = "convert" /\ pc = "post_math"
    /\ IF convert_math_transform(args)
       THEN ConvertProcessorCall("convert_plain_math_to_latex", "save")
       ELSE /\ pc' = "save"
            /\ UNCHANGED <<converted_content, exit_code, calls>>
    /\ UNCHANGED <<backend, printed, start_time, is_valid, files, interrupted, fsys, fsys0, cmd, args, files_to_convert, idx,
                   doc_type, output_file, results, successful_conversions>>

Convert_Save ==
    /\ cmd = "convert" /\ pc = "save"
    /\ \E r \in save_output(fsys, converted_content, output_file) :
          /\ fsys' = r.fs
          /\ Log("save_output", converted_content, NoContent, output_file)
          /\ exit_code' = convert_save_exit_code(r.ok)
          /\ printed' = IF r.ok THEN {"success"} ELSE {"save_error"}
    /\ pc' = "done"
    /\ UNCHANGED <<backend, start_time, is_valid, files, interrupted, fsys0, cmd, args, files_to_convert, idx, doc_type,
                   output_file, converted_content, results,
                   successful_conversions>>

(***************************************************************************)
(* commands/info.py                                                        *)
(***************************************************************************)
\* The output formats `info --file` reports as available for a document type.
info_available_formats(dt) ==
    IF dt = "excel" THEN {"markdown", "html", "json"} ELSE {"markdown", "html"}

\* The extensions of the paths `info --file` is pointed at: the supported
\* ones in several letter cases, others, and none.
InfoExtensions ==
    {".xlsx", ".xls", ".docx", ".doc", ".pptx", ".ppt",
     ".XLSX", ".Xlsx", ".XLS", ".DOCX", ".DOC", ".dOc", ".PPTX", ".PPT", ".pPt",
     "", ".txt", ".TXT", ".xlsm", ".XLSM", ".md"}

\* The paths `info --file` is pointed at.  A missing one was removed after
\* the command line was checked.
InfoPaths ==
    [stem : {Stem("report", <<>>)}, ext : InfoExtensions,
     kind : {"missing", "dir", "file"},
     size : {2048, FileSizeLimit, FileSizeLimit + 1}]

Info_Start(f) ==
    /\ pc = "idle"
    /\ cmd' = "info"
    /\ args' = [input |-> f]
    /\ pc' = "validate"
    /\ UNCHANGED <<backend, printed, start_time, is_valid, files, interrupted,
                   fsys, fsys0, files_to_convert, idx, doc_type, output_file,
                   converted_content, results, successful_conversions,
                   exit_code, calls>>

Info_Validate ==
    /\ cmd = "info" /\ pc = "validate"
    /\ is_valid' = validate_input_file(args.input)
    /\ IF ~is_valid'.ok
       THEN /\ printed' = {"error"}
            /\ pc' = "done"
            /\ exit_code' = 0
       ELSE /\ pc' = "classify"
            /\ UNCHANGED <<printed, exit_code>>
    /\ UNCHANGED <<backend, start_time, files, interrupted, fsys, fsys0, cmd,
                   args, files_to_convert, idx, doc_type, output_file,
                   converted_content, results, successful_conversions, calls>>

Info_Classify ==
    /\ cmd = "info" /\ pc = "classify"
    /\ IF is_supported_file(args.input)
       THEN /\ doc_type' = detect_document_type(args.input)
            /\ printed' = {"supported"} \cup info_available_formats(doc_type')
       ELSE /\ printed' = {"not_supported"}
            /\ UNCHANGED doc_type
    /\ pc' = "done"
    /\ exit_code' = 0
    /\ UNCHANGED <<backend, start_time, is_valid, files, interrupted, fsys,
                   fsys0, cmd, args, files_to_convert, idx, output_file,
                   converted_content, results, successful_conversions, calls>>

Scan_Start(dir, recursive) ==
    /\ pc = "idle"
    /\ cmd' = "scan"
    /\ args' = [input |-> dir, recursive |-> recursive]
    /\ files' = find_files_in_directory(dir, recursive)
    /\ IF files' = <<>>
       THEN /\ printed' = {"no_files_warning"}
            /\ pc' = "done"
            /\ exit_code' = 0
       ELSE /\ pc' = "group"
            /\ UNCHANGED <<printed, exit_code>>
    /\ UNCHANGED <<backend, start_time, is_valid, interrupted, fsys, fsys0,
                   files_to_convert, idx, doc_type, output_file,
                   converted_content, results, successful_conversions, calls>>

\* The loop that groups the files by type, files_by_type[doc_type] raising
\* for a type that is no key, and the summary after it.
Scan_Group ==
    /\ cmd = "scan" /\ pc = "group"
    /\ IF \E i \in DOMAIN files :
             detect_document_type(Entry[files[i]]) \notin DOMAIN SUPPORTED_EXTENSIONS
       THEN /\ exit_code' = 1
            /\ UNCHANGED printed
       ELSE /\ exit_code' = 0
            /\ printed' = {"summary"}
    /\ pc' = "done"
    /\ UNCHANGED <<backend, start_time, is_valid, files, interrupted, fsys,
                   fsys0, cmd, args, files_to_convert, idx, doc_type,
                   output_file, converted_content, results,
                   successful_conversions, calls>>

(***************************************************************************)
(* main.py: the user's interrupt                                           *)
(***************************************************************************)
\* What a write cut by the interrupt leaves: nothing when open() had not
\* run, the complete file when write() had returned, a cut file in between.
InterruptedWrite(fs, content, p) ==
    {fs, WriteFile(fs, p, Truncated(content)), WriteFile(fs, p, content)}

\* KeyboardInterrupt in a running convert or batch: no except clause of the
\* commands catches it, the process ends with exit code 1.
Interrupt ==
    /\ cmd \in {"convert", "batch"}
    /\ pc \notin {"idle", "done"}
    /\ interrupted' = TRUE
    /\ pc' = "done"
    /\ exit_code' = 1
    /\ IF pc = "save"
       THEN fsys' \in InterruptedWrite(fsys, converted_content, output_file)
       ELSE UNCHANGED fsys
    /\ UNCHANGED <<backend, printed, start_time, is_valid, files, fsys0, cmd,
                   args, files_to_convert, idx, doc_type, output_file,
                   converted_content, results, successful_conversions, calls>>

(***************************************************************************)
(* The specification.                                                      *)
(***************************************************************************)
Next ==
    \/ \E dir \in BatchDirs, fmt \in OUTPUT_FORMATS,
          coe \in BOOLEAN, maxf \in MaxFilesChoices :
          \E recursive \in RecursiveChoices(dir), flags \in FlagChoices(fmt) :
              Batch_Start(dir, recursive, fmt, flags, coe, maxf)
    \/ Batch_NextFile
    \/ Batch_Validate
    \/ Batch_Classify
    \/ Batch_Resolve
    \/ Batch_Convert
    \/ Batch_PostImage
    \/ Batch_PostMath
    \/ Batch_Save
    \/ Batch_Summary
    \/ \E input \in ConvertInputs, fmt \in OUTPUT_FORMATS :
          \E flags \in FlagChoices(fmt) : Convert_Start(input, fmt, flags)
    \/ Convert_Validate
    \/ Convert_Classify
    \/ Convert_Resolve
    \/ Convert_Convert
    \/ Convert_PostImage
    \/ Convert_PostMath
    \/ Convert_Save
    \/ \E f \in InfoPaths : Info_Start(f)
    \/ Info_Validate
    \/ Info_Classify
    \/ \E dir \in DOMAIN InputDirs, recursive \in BOOLEAN : Scan_Start(dir, recursive)
    \/ Scan_Group

Spec == Init /\ [][Next]_vars

\* The batch command alone, with the flags all off or all on whatever the format.
NextReturning ==
    \/ \E dir \in BatchDirs, fmt \in OUTPUT_FORMATS,
          coe \in BOOLEAN, maxf \in MaxFilesChoices :
          \E recursive \in RecursiveChoices(dir), flags \in FlagChoices("html") :
              Batch_Start(dir, recursive, fmt, flags, coe, maxf)
    \/ Batch_NextFile
    \/ Batch_Validate
    \/ Batch_Classify
    \/ Batch_Resolve
    \/ Batch_Convert
    \/ Batch_PostImage
    \/ Batch_PostMath
    \/ Batch_Save
    \/ Batch_Summary

\* The batch command when every call returns: the interpreter goes on to the
\* next statement as long as there is one.
SpecReturning == Init /\ [][NextReturning]_vars /\ WF_vars(NextReturning)

\* A caller of CLIConfig.detect_document_type, on any path.
Config_Detect(f) ==
    /\ pc = "idle"
    /\ cmd' = "detect"
    /\ args' = [input |-> f]
    /\ doc_type' = detect_document_type(f)
    /\ pc' = "done"
    /\ exit_code' = 0
    /\ UNCHANGED <<backend, printed, start_time, is_valid, files, interrupted,
                   fsys, fsys0, files_to_convert, idx, output_file,
                   converted_content, results, successful_conversions, calls>>

NextConfig == \E f \in InfoPaths : Config_Detect(f)

SpecConfig == Init /\ [][NextConfig]_vars

\* The commands under the user's interrupt, on an output directory that
\* holds no file yet.
InitInterrupt == Init /\ DOMAIN fsys.files = {}

NextInterrupt == Next \/ Interrupt

SpecInterrupt == InitInterrupt /\ [][NextInterrupt]_vars

(***************************************************************************)
(* What the properties below read off the state.                           *)
(***************************************************************************)
ImageTransforms == {"remove_images", "encode_images_base64", "ocr_images"}
MathTransform == "convert_plain_math_to_latex"
PostTransforms == ImageTransforms \cup {MathTransform}
ConverterMethods == {"convert_to_md", "convert_to_html", "convert_to_json"}

\* The position of the file in progress, and the positions begun so far.
Pos == IF cmd = "batch" THEN idx ELSE 0
Positions == IF cmd = "batch" THEN 1..idx ELSE IF cmd = "convert" THEN {0} ELSE {}

\* The calls (as indices of the log) made for the file at position i.
CallsOf(i, ops) == {n \in DOMAIN calls : calls[n].pos = i /\ calls[n].op \in ops}
Ran(i, op) == CallsOf(i, {op}) # {}

\* The converter returned Markdown for the file at position i.
GotMarkdown(i) == \E n \in CallsOf(i, {"convert_to_md"}) : calls[n].out # Raised

\* The file at position i is beyond the image step of the chain.
PastImageStep(i) == GotMarkdown(i) /\ ~(i = Pos /\ pc = "post_image")

\* The file at position i is beyond the math step, the image step not having failed.
PastMathStep(i) ==
    /\ PastImageStep(i)
    /\ \A n \in CallsOf(i, ImageTransforms) : calls[n].out # Raised
    /\ ~(i = Pos /\ pc = "post_math")

NewFiles == DOMAIN fsys.files \ DOMAIN fsys0.files

(***************************************************************************)
(* C1: in a batch without --continue-on-error, the first failure (at        *)
(* position k) ends the run: the outcome holds exactly k results, the       *)
(* first k-1 successes and the k-th a failure, in file order; no call is    *)
(* made for a file after the k-th; and the run ends with exit code 1.      *)
(***************************************************************************)
C1_HaltOnFirstFailure ==
    (cmd = "batch" /\ ~args.continue_on_error) =>
        \A k \in 1..Len(results) :
            ~results[k].success =>
                /\ Len(results) = k
                /\ \A j \in 1..(k - 1) : results[j].success
                /\ \A j \in 1..k : results[j].input_file = files_to_convert[j]
                /\ idx = k
                /\ pc \in {"summary", "done"}
                /\ \A n \in DOMAIN calls : calls[n].pos <= k
                /\ (pc = "done" => exit_code = 1)

C1_Witness ==
    /\ cmd = "batch" /\ ~args.continue_on_error /\ pc = "done"
    /\ Len(files_to_convert) = 3
    /\ Len(results) = 2
    /\ results[1].success /\ ~results[2].success
    /\ exit_code = 1

(***************************************************************************)
(* C2: in a batch with --continue-on-error every file is attempted: the    *)
(* finished run holds one result per file, in file order, each file was    *)
(* validated, and the exit code is never 1, whatever failed.               *)
(***************************************************************************)
C2_ContinueOnError ==
    (cmd = "batch" /\ args.continue_on_error) =>
        /\ exit_code # 1
        /\ pc = "done" =>
              /\ Len(results) = Len(files_to_convert)
              /\ \A i \in 1..Len(files_to_convert) :
                    /\ results[i].input_file = files_to_convert[i]
                    /\ Ran(i, "validate_input_file")
              /\ exit_code = 0

C2_Witness ==
    /\ cmd = "batch" /\ args.continue_on_error /\ pc = "done"
    /\ Len(results) = 3
    /\ ~results[1].success /\ results[2].success /\ ~results[3].success
    /\ exit_code = 0

(***************************************************************************)
(* C3: for a file whose Markdown was converted, at most one image          *)
(* transform is called, the first selected one in the order remove_images, *)
(* encode_images_base64, ocr_images: each runs iff it is selected and none *)
(* before it is; in `convert` and in `batch` alike.                        *)
(***************************************************************************)
C3_ImageExclusivity ==
    \A i \in Positions :
        /\ Cardinality(CallsOf(i, ImageTransforms)) <= 1
        /\ PastImageStep(i) =>
              /\ Ran(i, "remove_images") <=> args.remove_images
              /\ Ran(i, "encode_images_base64") <=>
                    (args.encode_images_base64 /\ ~args.remove_images)
              /\ Ran(i, "ocr_images") <=>
                    (args.ocr_images /\ ~args.remove_images
                        /\ ~args.encode_images_base64)

C3_Witness ==
    /\ cmd = "batch" /\ pc = "done"
    /\ args.remove_images /\ args.encode_images_base64 /\ args.ocr_images
    /\ ~args.convert_math_to_latex
    /\ Len(results) = 3
    /\ \A i \in 1..3 : results[i].success
    /\ \A i \in 1..3 : fsys.files[results[i].output_file].tr = <<"remove_images">>

(***************************************************************************)
(* C4: the math transform is called at most once per file and only after   *)
(* the image transform, on the image transform's output (on the            *)
(* converter's output when no image transform is selected); with           *)
(* --convert-math-to-latex it is called exactly once for every Markdown    *)
(* file that comes through the image step.                                 *)
(***************************************************************************)
C4_MathAfterImage ==
    \A i \in Positions :
        LET M == CallsOf(i, {MathTransform})
            I == CallsOf(i, ImageTransforms)
        IN  /\ Cardinality(M) <= 1
            /\ \A m \in M :
                  /\ \A n \in I : n < m /\ calls[m].in = calls[n].out
                  /\ I = {} =>
                        \E c \in CallsOf(i, {"convert_to_md"}) :
                            c < m /\ calls[m].in = calls[c].out
            /\ (args.convert_math_to_latex /\ PastMathStep(i)) =>
                  Cardinality(M) = 1

C4_Witness ==
    /\ cmd = "convert" /\ pc = "done" /\ exit_code = 0
    /\ args.ocr_images /\ args.convert_math_to_latex
    /\ output_file \in DOMAIN fsys.files
    /\ fsys.files[output_file].tr = <<"ocr_images", MathTransform>>

(***************************************************************************)
(* C5: for html and json output, and for Markdown with no flag set, no     *)
(* transform is called, whatever flags are set, and what is written is     *)
(* the converter's output as it was returned.                              *)
(***************************************************************************)
C5_PostProcessingMarkdownOnly ==
    (cmd \in {"convert", "batch"} /\ (args.output_format \in {"html", "json"} \/ ~AnyFlag(args))) =>
        /\ \A n \in DOMAIN calls : calls[n].op \notin PostTransforms
        /\ \A n \in DOMAIN calls :
              calls[n].op = "save_output" =>
                  \E c \in CallsOf(calls[n].pos, ConverterMethods) :
                      c < n /\ calls[n].in = calls[c].out /\ calls[c].out # Raised
        /\ \A p \in NewFiles :
              \E c \in DOMAIN calls :
                  /\ calls[c].op \in ConverterMethods
                  /\ fsys.files[p] \in {calls[c].out, Truncated(calls[c].out)}

C5_Witness ==
    /\ cmd = "batch" /\ pc = "done" /\ backend = "real"
    /\ args.output_format = "html"
    /\ args.remove_images /\ args.encode_images_base64
    /\ args.ocr_images /\ args.convert_math_to_latex
    /\ Len(results) = 3 /\ results[3].success
    /\ fsys.files[results[3].output_file] = Content(files_to_convert[3], "convert_to_html", <<>>)

\* One step leaves every existing file as it is and writes to a free path only.
NoOverwriteStep ==
    /\ \A p \in DOMAIN fsys.files :
          p \in DOMAIN fsys'.files /\ fsys'.files[p] = fsys.files[p]
    /\ pc = "resolve" => output_file' \notin DOMAIN fsys.files
    /\ pc = "save" =>
          /\ output_file \notin DOMAIN fsys.files
          /\ DOMAIN fsys'.files \subseteq DOMAIN fsys.files \cup {output_file}

(***************************************************************************)
(* C6: no step removes or changes a file of the output directory; the path *)
(* a conversion resolves does not exist when it is resolved, still does    *)
(* not exist when the conversion writes, and the write touches that path   *)
(* only.                                                                   *)
(***************************************************************************)
C6_NoOverwrite == [][NoOverwriteStep]_vars

C6_Witness ==
    /\ pc = "done"
    /\ Name(Stem("report", <<>>), 0, ".md") \in DOMAIN fsys0.files
    /\ Name(Stem("report", <<>>), 1, ".md") \in NewFiles
    /\ fsys.files[Name(Stem("report", <<>>), 1, ".md")].whole
    /\ fsys.files[Name(Stem("report", <<>>), 0, ".md")] = OldContent

\* p is the first free name among stem.ext, stem_1.ext, stem_2.ext, ...
SmallestFree(F, stem, ext, p) ==
    \E k \in 0..Cardinality(F) :
        /\ p = Name(stem, k, ext)
        /\ p \notin F
        /\ \A j \in 0..(k - 1) : Name(stem, j, ext) \in F

(***************************************************************************)
(* C7: the path resolved for a stem is stem.ext when that is free, and     *)
(* otherwise stem_k.ext for the smallest k >= 1 that is free, whatever     *)
(* the directory holds; and from a clean directory, successive files of    *)
(* one stem, each written before the next is resolved, get stem.ext,       *)
(* stem_1.ext, stem_2.ext, ... in that order.                              *)
(***************************************************************************)
C7_SmallestFreeSuffix ==
    /\ pc = "convert" =>
          SmallestFree(DOMAIN fsys.files, Entry[CurFile].stem,
                       ExtOf(args.output_format), output_file)
    /\ (cmd = "batch" /\ DOMAIN fsys0.files = {}) =>
          \A i \in Positions :
              ( /\ \A j \in 1..(i - 1) :
                      /\ Entry[files_to_convert[j]].stem = Entry[files_to_convert[i]].stem
                      /\ Len(results) >= j /\ results[j].success )
              => \A n \in CallsOf(i, {"create_output_path"}) :
                    calls[n].path = Name(Entry[files_to_convert[i]].stem, i - 1,
                                         ExtOf(args.output_format))

C7_Witness ==
    /\ cmd = "batch" /\ pc = "done"
    /\ DOMAIN fsys0.files = {}
    /\ args.output_format = "markdown"
    /\ Len(results) = 3
    /\ \A i \in 1..3 :
          /\ results[i].success
          /\ results[i].output_file = Name(Stem("report", <<>>), i - 1, ".md")

\* A directory with a gap in its numbering: the file takes the gap.
C7_GapReached ==
    /\ pc = "convert"
    /\ {p.nums : p \in {q \in DOMAIN fsys.files : q.ext = ".md"}} = {<<>>, <<2>>}
    /\ output_file = Name(Stem("report", <<>>), 1, ".md")

(***************************************************************************)
(* C8: create_output_path makes the output directory and nothing else: it  *)
(* does not create the file it names, so two calls for the same stem and   *)
(* format with no save between them return the same path.                  *)
(***************************************************************************)
C8_ResolveIdempotent ==
    LET R == {n \in DOMAIN calls : calls[n].op = "create_output_path"}
        StemAt(n) == IF cmd = "batch" THEN Entry[files_to_convert[calls[n].pos]].stem
                     ELSE Entry[args.input].stem
    IN  /\ R # {} => fsys.dir
        /\ pc = "convert" => output_file \notin DOMAIN fsys.files
        /\ \A m, n \in R :
              ( /\ m < n
                /\ StemAt(m) = StemAt(n)
                /\ \A s \in (m + 1)..(n - 1) : calls[s].op # "save_output" )
              => calls[m].path = calls[n].path

C8_Witness ==
    /\ cmd = "batch"
    /\ ~fsys0.dir /\ fsys.dir
    /\ \E m, n \in DOMAIN calls :
          /\ m < n
          /\ calls[m].op = "create_output_path" /\ calls[n].op = "create_output_path"
          /\ \A s \in (m + 1)..(n - 1) : calls[s].op # "save_output"
          /\ calls[m].path = calls[n].path
          /\ calls[m].path \notin DOMAIN fsys.files

\* The file at position i asked for json of a converter without convert_to_json.
JsonRefused(i) ==
    /\ args.output_format = "json"
    /\ ~HasConvertToJson(backend, detect_document_type(Entry[
            IF cmd = "batch" THEN files_to_convert[i] ELSE args.input]))
    /\ Ran(i, "create_output_path")
    /\ ~(i = Pos /\ pc = "convert")

(***************************************************************************)
(* C9: a json request for a file whose converter has no convert_to_json    *)
(* fails for that file with the json-not-supported reason: no converter    *)
(* method, transform or save is called for it; in a batch the failure is   *)
(* recorded and the run goes its way, in `convert` the exit code is 1.     *)
(***************************************************************************)
C9_JsonNotSupported ==
    \A i \in Positions :
        JsonRefused(i) =>
            /\ CallsOf(i, ConverterMethods \cup PostTransforms \cup {"save_output"}) = {}
            /\ cmd = "batch" =>
                  /\ Len(results) >= i
                  /\ ~results[i].success
                  /\ results[i].error = "JSON conversion not supported"
                  /\ results[i].output_file = NA
                  /\ (i = Pos /\ pc # "done") =>
                        pc = IF args.continue_on_error THEN "loop" ELSE "summary"
                  /\ pc = "done" =>
                        exit_code = IF args.continue_on_error THEN 0 ELSE 1
            /\ cmd = "convert" => (pc = "done" /\ exit_code = 1)

C9_Witness ==
    /\ cmd = "batch" /\ pc = "done" /\ backend = "real"
    /\ args.output_format = "json" /\ args.continue_on_error
    /\ Len(results) = 3
    /\ results[1].error = "JSON conversion not supported"
    /\ results[2].error = "JSON conversion not supported"
    /\ results[3].success
    /\ DOMAIN fsys0.files = {}
    /\ DOMAIN fsys.files = {Name(Stem("report", <<>>), 0, ".json")}

(***************************************************************************)
(* C10: json output is for excel documents only: a conversion succeeds     *)
(* only in a format that `info` reports as available for the file's type.  *)
(***************************************************************************)
C10_SuccessOnlyInReportedFormats ==
    /\ (cmd = "convert" /\ pc = "done" /\ exit_code = 0) =>
          args.output_format \in info_available_formats(doc_type)
    /\ cmd = "batch" =>
          \A i \in 1..Len(results) :
              results[i].success =>
                  args.output_format \in info_available_formats(
                      detect_document_type(Entry[results[i].input_file]))

\* What discovery returned to the batch in progress.
Discovered == find_files_in_directory(args.input, args.recursive)

\* The first m elements of a sequence.
FirstOf(s, m) == [i \in 1..m |-> s[i]]

(***************************************************************************)
(* C11: a batch whose discovery returned D files with --max-files M works   *)
(* on exactly the first M files of the sorted sequence, in that order, and  *)
(* prints the limit warning, whenever M < D; when D <= M it works on all D  *)
(* files and prints no such warning.  With --continue-on-error the finished *)
(* run holds one result for each of these files.                            *)
(***************************************************************************)
C11_TruncationToMaxFiles ==
    (cmd = "batch" /\ Discovered # <<>>) =>
        LET D == Len(Discovered)
            M == args.max_files
        IN  /\ M < D =>
                /\ files_to_convert = FirstOf(Discovered, M)
                /\ "limit_warning" \in printed
            /\ D <= M =>
                /\ files_to_convert = Discovered
                /\ "limit_warning" \notin printed
            /\ (pc = "done" /\ args.continue_on_error) =>
                   Len(results) = Len(files_to_convert)

\* A batch cut to a positive maximum: the case in which C11's statement holds.
C11_PositiveLimitReached ==
    /\ cmd = "batch" /\ pc = "done"
    /\ args.max_files = SmallMaxFiles
    /\ Len(Discovered) = 4
    /\ files_to_convert = FirstOf(Discovered, SmallMaxFiles)
    /\ "limit_warning" \in printed

(***************************************************************************)
(* C12: a batch on a directory in which discovery finds no file ends at     *)
(* once with exit code 0 and an empty outcome: no result is recorded, no    *)
(* call is made (no pipeline step, no converter created or invoked), and    *)
(* the output directory is as the command found it, absent if it was.      *)
(***************************************************************************)
C12_EmptyBatch ==
    (cmd = "batch" /\ Discovered = <<>>) =>
        /\ pc = "done"
        /\ exit_code = 0
        /\ files_to_convert = <<>>
        /\ results = <<>>
        /\ successful_conversions = 0
        /\ calls = <<>>
        /\ fsys = fsys0
        /\ printed = {"no_files_warning"}

C12_Witness ==
    /\ cmd = "batch" /\ pc = "done"
    /\ args.input = "nodocs" /\ ~args.recursive
    /\ InputDirs[args.input] # {}
    /\ Discovered = <<>>
    /\ ~fsys0.dir /\ ~fsys.dir
    /\ exit_code = 0

\* The spellings of each supported extension among the paths tried.
Spellings ==
    [excel      |-> {".xlsx", ".XLSX", ".Xlsx", ".xls", ".XLS"},
     word       |-> {".docx", ".DOCX", ".doc", ".DOC", ".dOc"},
     powerpoint |-> {".pptx", ".PPTX", ".ppt", ".PPT", ".pPt"}]

(***************************************************************************)
(* C13: detect_document_type is total.  A path whose extension is a         *)
(* supported one, in any letter case, gets the type that owns the           *)
(* extension; the extension sets of the three types are pairwise disjoint,  *)
(* so that type is unique; every other path, one without an extension       *)
(* included, gets unknown.                                                  *)
(***************************************************************************)
C13_DetectTotal ==
    /\ \A t, u \in DOMAIN SUPPORTED_EXTENSIONS :
          t # u => SUPPORTED_EXTENSIONS[t] \cap SUPPORTED_EXTENSIONS[u] = {}
    /\ \A t \in DOMAIN SUPPORTED_EXTENSIONS : SUPPORTED_EXTENSIONS[t] \subseteq Spellings[t]
    /\ (cmd = "detect" /\ pc = "done") =>
          /\ \A t \in DOMAIN SUPPORTED_EXTENSIONS :
                args.input.ext \in Spellings[t] => doc_type = t
          /\ (\A t \in DOMAIN SUPPORTED_EXTENSIONS : args.input.ext \notin Spellings[t])
                => doc_type = "unknown"

C13_Witness ==
    /\ cmd = "detect" /\ pc = "done"
    /\ args.input.ext = ".pPt"
    /\ doc_type = "powerpoint"

\* The other case of C13: a path without extension is of type unknown.
C13_NoExtensionReached ==
    /\ cmd = "detect" /\ pc = "done"
    /\ args.input.ext = ""
    /\ doc_type = "unknown"

RECURSIVE DirsWithin(_, _)
\* The directories at most n levels below one of the directories ds, ds included.
DirsWithin(ds, n) ==
    IF n = 0 THEN ds
    ELSE DirsWithin(ds \cup UNION {SubDirs[d] : d \in ds}, n - 1)

\* The entries discovery is asked for: those with a supported extension, as
\* written, directly in the directory or, with recursive, anywhere below it.
Wanted(dir, recursive) ==
    LET dirs == IF recursive
                THEN DirsWithin({dir}, Cardinality(DOMAIN SubDirs))
                ELSE {dir}
    IN  {e \in UNION {InputDirs[d] : d \in dirs} :
            Entry[e].ext \in get_all_supported_extensions}

(***************************************************************************)
(* C14: find_files_in_directory returns its result in ascending order of    *)
(* the full paths and without duplicates; every entry has a supported       *)
(* extension; without recursive the entries are the directory's own         *)
(* children, with recursive those of all its subdirectories as well; a      *)
(* path that does not exist or is no directory gives the empty sequence.    *)
(***************************************************************************)
C14_DiscoverySortedUnique ==
    (cmd = "scan") =>
        /\ \A i, j \in DOMAIN files : i < j => files[i] < files[j]
        /\ \A i \in DOMAIN files :
              Entry[files[i]].ext \in get_all_supported_extensions
        /\ DirKind[args.input] # "dir" => files = <<>>
        /\ DirKind[args.input] = "dir" =>
              {files[i] : i \in DOMAIN files} = Wanted(args.input, args.recursive)

C14_Witness ==
    /\ cmd = "scan"
    /\ args.input = "nodocs" /\ args.recursive
    /\ files = <<9, 10>>
    /\ 4 \in InputDirs[args.input]

\* Further cases of C14: a sort that reorders, a subdirectory left alone, a
\* path that is no directory.
C14_SortReached == cmd = "scan" /\ args.input = "same" /\ files = <<5, 6, 7>>
C14_FlatReached == cmd = "scan" /\ args.input = "old" /\ ~args.recursive /\ files = <<10>>
C14_NoDirectoryReached == cmd = "scan" /\ args.input = "plain" /\ pc = "done"

\* The four conditions of a valid input, in the order the claim lists them.
PathExists(f) == f.kind # "missing"
IsRegularFile(f) == f.kind = "file"
WithinSizeLimit(f) == f.size <= MAX_FILE_SIZE_MB * 1048576
HasSupportedExtension(f) == \E t \in DOMAIN Spellings : f.ext \in Spellings[t]

FirstViolation(f) ==
    CASE ~PathExists(f) -> "File not found"
      [] PathExists(f) /\ ~IsRegularFile(f) -> "Path is not a file"
      [] IsRegularFile(f) /\ ~WithinSizeLimit(f) -> "File too large"
      [] IsRegularFile(f) /\ WithinSizeLimit(f) /\ ~HasSupportedExtension(f)
            -> "Unsupported file type"
      [] OTHER -> ""

\* The file of position i of the command in progress.
FileAt(i) == IF cmd = "batch" THEN files_to_convert[i] ELSE args.input

(***************************************************************************)
(* C15: validate_input_file succeeds exactly when the path exists, is a     *)
(* regular file, is not larger than the maximum size (a file of exactly     *)
(* the maximum is accepted) and has a supported extension; otherwise its    *)
(* message names the first condition violated, in the order not found, not  *)
(* a file, too large, unsupported type.  A file that fails validation is    *)
(* never passed to a converter or to the post-processor.                    *)
(***************************************************************************)
C15_ValidationOrder ==
    /\ (cmd = "info" /\ pc # "validate") =>
          /\ is_valid.ok <=> FirstViolation(args.input) = ""
          /\ is_valid.err = FirstViolation(args.input)
    /\ (cmd \in {"convert", "batch"}) =>
          \A i \in Positions :
              FirstViolation(Entry[FileAt(i)]) # "" =>
                  /\ CallsOf(i, ConverterMethods \cup PostTransforms
                                    \cup {"create_output_path", "save_output"}) = {}
                  /\ (cmd = "batch" /\ Len(results) >= i) =>
                        /\ ~results[i].success
                        /\ results[i].error = FirstViolation(Entry[FileAt(i)])

C15_Witness ==
    /\ cmd = "info" /\ pc = "classify"
    /\ args.input.kind = "file"
    /\ args.input.size = 104857600
    /\ args.input.ext = ".DOC"
    /\ is_valid.ok

\* Further cases of C15: each message, on a path that violates the later
\* conditions too; and a batch that keeps an oversized file from its converter.
C15_NotFoundReached ==
    /\ cmd = "info" /\ args.input.kind = "missing" /\ args.input.ext = ".md"
    /\ is_valid.err = "File not found"
C15_NotAFileReached ==
    /\ cmd = "info" /\ args.input.kind = "dir" /\ args.input.ext = ".md"
    /\ args.input.size > FileSizeLimit
    /\ is_valid.err = "Path is not a file"
C15_TooLargeReached ==
    /\ cmd = "info" /\ args.input.kind = "file" /\ args.input.ext = ".md"
    /\ is_valid.err = "File too large"
C15_UnsupportedReached ==
    /\ cmd = "info" /\ args.input.kind = "file" /\ args.input.ext = ".xlsm"
    /\ is_valid.err = "Unsupported file type"
C15_BatchRejectReached ==
    /\ cmd = "batch" /\ pc = "done" /\ args.continue_on_error
    /\ Len(results) = 4
    /\ results[1].error = "File too large"
    /\ results[3].success

\* The number of files of the batch whose pipeline has ended.
Finished == IF pc \in {"loop", "summary", "done"} THEN idx ELSE idx - 1

\* All the calls made for the file at position i.
AllCallsOf(i) == {n \in DOMAIN calls : calls[n].pos = i}

(***************************************************************************)
(* C16: an error ends the pipeline of its file.  When validation, the       *)
(* converter lookup, the capability check, the conversion or a transform    *)
(* has failed for a file of a batch, the failing step is the last step run  *)
(* for that file, no output is saved for it, and the file has exactly one   *)
(* result, a failure with a non-empty error message.                        *)
(***************************************************************************)
C16_ErrorShortCircuits ==
    (cmd = "batch" /\ Discovered # <<>>) =>
        /\ Len(results) = Finished
        /\ \A i \in 1..Len(results) :
              /\ results[i].input_file = files_to_convert[i]
              /\ (~results[i].success /\ results[i].error # "Failed to save output") =>
                    /\ results[i].error \notin {"", "None"}
                    /\ CallsOf(i, {"save_output"}) = {}
                    /\ \A n \in AllCallsOf(i) :
                          calls[n].out = Raised =>
                              \A m \in AllCallsOf(i) : m <= n
                    /\ results[i].error \in {"File not found", "Path is not a file",
                                             "File too large", "Unsupported file type"}
                          => \A n \in AllCallsOf(i) : calls[n].op = "validate_input_file"
                    /\ results[i].error = "JSON conversion not supported"
                          => CallsOf(i, ConverterMethods \cup PostTransforms) = {}
                    /\ results[i].error = "converter error"
                          => /\ CallsOf(i, PostTransforms) = {}
                             /\ \E n \in CallsOf(i, ConverterMethods) : calls[n].out = Raised
                    /\ results[i].error = "post-processor error"
                          => \E n \in CallsOf(i, PostTransforms) : calls[n].out = Raised
        /\ \A p \in NewFiles :
              \E n \in DOMAIN calls : calls[n].op = "save_output" /\ calls[n].path = p

C16_Witness ==
    /\ cmd = "batch" /\ pc = "done" /\ args.continue_on_error
    /\ Len(results) = 3
    /\ results[1].error = "post-processor error"
    /\ AllCallsOf(1) # {}
    /\ results[2].error = "converter error"
    /\ results[3].success
    /\ Cardinality(NewFiles) = 1

\* The save of the file in progress has just reported failure.
SaveJustFailed ==
    \/ cmd = "convert" /\ printed = {"save_error"}
    \/ /\ cmd = "batch" /\ Len(results) = idx /\ idx > 0
       /\ pc \in {"loop", "summary"}
       /\ results[idx].error = "Failed to save output"

(***************************************************************************)
(* C17: a failed write leaves no partial output.  When save_output has      *)
(* reported failure, no file, empty or cut short, is at the resolved        *)
(* output path; and every file in the output directory holds complete       *)
(* content.                                                                 *)
(***************************************************************************)
C17_NoPartialOutput ==
    (cmd \in {"convert", "batch"}) =>
        /\ SaveJustFailed => ~Exists(fsys, output_file)
        /\ \A p \in DOMAIN fsys.files : fsys.files[p].whole

\* The case in which C17's statement holds: the write failed before the file
\* was created.
C17_CleanFailureReached ==
    /\ SaveJustFailed
    /\ ~Exists(fsys, output_file)

\* The file in progress when the interrupt came: begun, no result yet, and
\* its output path resolved.
InProgressResolved ==
    /\ \/ cmd = "convert"
       \/ cmd = "batch" /\ idx > Len(results)
    /\ Ran(Pos, "create_output_path")

(***************************************************************************)
(* C18: a user interrupt ends a convert or batch run where it stands: no    *)
(* further file is started, no partly written output file is left for the  *)
(* file in progress, and no success is reported for content that is not     *)
(* whole.                                                                   *)
(***************************************************************************)
C18_InterruptLeavesNoPartialOutput ==
    interrupted =>
        /\ pc = "done"
        /\ exit_code = 1
        /\ "success" \notin printed
        /\ InProgressResolved =>
              (Exists(fsys, output_file) => fsys.files[output_file].whole)
        /\ \A i \in 1..Len(results) :
              results[i].success =>
                  /\ Exists(fsys, results[i].output_file)
                  /\ fsys.files[results[i].output_file].whole

\* The cases in which C18's statement holds: the interrupt came between two
\* files of a batch, or before the output file was opened.
C18_InterruptBetweenFilesReached ==
    /\ interrupted /\ cmd = "batch"
    /\ Len(results) = 1 /\ idx = 1 /\ results[1].success
    /\ Len(files_to_convert) = 3
    /\ Cardinality(NewFiles) = 1
C18_InterruptBeforeOpenReached ==
    /\ interrupted /\ InProgressResolved
    /\ Ran(Pos, "convert_to_md")
    /\ ~Exists(fsys, output_file)

\* The finished convert command converted its input and saved the content.
ConvertedAndSaved ==
    /\ \E n \in CallsOf(0, ConverterMethods) : calls[n].out # Raised
    /\ \A n \in DOMAIN calls : calls[n].out # Raised
    /\ Ran(0, "save_output")
    /\ Exists(fsys, output_file)
    /\ fsys.files[output_file] = converted_content
    /\ converted_content.whole

C19_InvalidReached ==
    cmd = "convert" /\ pc = "done" /\ exit_code = 1 /\ calls[Len(calls)].op = "validate_input_file"
C19_JsonRefusedReached ==
    /\ cmd = "convert" /\ pc = "done" /\ exit_code = 1 /\ args.output_format = "json"
    /\ calls[Len(calls)].op = "create_output_path"
C19_ConverterRaisedReached ==
    /\ cmd = "convert" /\ pc = "done" /\ exit_code = 1
    /\ calls[Len(calls)].op \in ConverterMethods /\ calls[Len(calls)].out = Raised
C19_TransformRaisedReached ==
    /\ cmd = "convert" /\ pc = "done" /\ exit_code = 1
    /\ calls[Len(calls)].op \in PostTransforms /\ calls[Len(calls)].out = Raised
C19_SaveFailedReached ==
    cmd = "convert" /\ pc = "done" /\ exit_code = 1 /\ printed = {"save_error"}

\* The clock before the first call and after the last call made for the
\* file at position i.
ClockBefore(i) == CHOOSE n \in AllCallsOf(i) : \A m \in AllCallsOf(i) : n <= m
ClockAfter(i) == CHOOSE n \in AllCallsOf(i) : \A m \in AllCallsOf(i) : m <= n

(***************************************************************************)
(* C20: every result record of a batch is well-formed.  It is a success     *)
(* exactly when it carries no error and exactly when it carries an output   *)
(* name (a failed record carries the placeholder N/A); a successful record  *)
(* names a file that the run wrote, whole; and its processing time is the   *)
(* time from the start of the file's validation to the record.             *)
(***************************************************************************)
C20_ResultWellFormed ==
    (cmd = "batch") =>
        \A i \in 1..Len(results) :
            /\ results[i].success <=> results[i].error = "None"
            /\ results[i].success <=> results[i].output_file # NA
            /\ ~results[i].success => results[i].error # ""
            /\ results[i].success =>
                  \E n \in CallsOf(i, {"save_output"}) :
                      /\ calls[n].path = results[i].output_file
                      /\ results[i].output_file \in NewFiles
                      /\ fsys.files[results[i].output_file] = calls[n].in
                      /\ calls[n].in.whole
            /\ calls[ClockBefore(i)].op = "validate_input_file"
            /\ results[i].processing_time = ClockAfter(i) - (ClockBefore(i) - 1)
            /\ results[i].processing_time > 0

C20_Witness ==
    /\ cmd = "batch" /\ pc = "done"
    /\ Len(results) = 4
    /\ ~results[1].success /\ results[1].output_file = NA
    /\ results[1].processing_time = 1
    /\ results[3].success /\ results[3].processing_time = 6
    /\ ~results[4].success /\ results[4].processing_time = 4

\* A save was attempted by the command in progress.
SaveAttempted == \E n \in DOMAIN calls : calls[n].op = "save_output"

(***************************************************************************)
(* C21: the pipeline of a file resolves its output path, and so creates     *)
(* the output directory, only after the conversion and the transforms: a    *)
(* create_output_path call for a file follows a converter call that         *)
(* returned for it, and as long as no file has reached the save the output  *)
(* directory is as the command found it.                                    *)
(***************************************************************************)
C21_ResolveAfterConversion ==
    (cmd \in {"convert", "batch"}) =>
        /\ \A i \in Positions :
              \A n \in CallsOf(i, {"create_output_path"}) :
                  \E m \in CallsOf(i, ConverterMethods) :
                      m < n /\ calls[m].out # Raised
        /\ ~SaveAttempted => fsys = fsys0

\* The part of C21 that holds: a file refused by validation leaves the
\* output directory alone.
C21_ValidationFailureReached ==
    /\ cmd = "convert" /\ pc = "done" /\ exit_code = 1
    /\ calls[Len(calls)].op = "validate_input_file"
    /\ fsys = fsys0 /\ ~fsys.dir

\* How the code departs from C21: the converter raised, and the output
\* directory, absent before, exists.
C21_DirectoryCreatedReached ==
    /\ cmd = "convert" /\ pc = "done" /\ exit_code = 1
    /\ calls[Len(calls)].op \in ConverterMethods /\ calls[Len(calls)].out = Raised
    /\ ~fsys0.dir /\ fsys.dir
    /\ DOMAIN fsys.files = {}

\* One step of a batch, as C22 sees it.
OutcomeStep ==
    cmd' = "batch" =>
        /\ Len(results') \in {Len(results), Len(results) + 1}
        /\ \A i \in 1..Len(results) : results'[i] = results[i]
        /\ Len(results') = Finished'
        /\ Len(results') <= Len(files_to_convert')
        /\ \A i \in 1..Len(results') :
              results'[i].input_file = files_to_convert'[i]
        /\ idx' \in {Len(results'), Len(results') + 1}
        /\ idx' # idx => (idx' = idx + 1 /\ Len(results) = idx)
        /\ cmd = "batch" => files_to_convert' = files_to_convert

(***************************************************************************)
(* C22: the outcome of a batch is append-only and in discovery order.  In   *)
(* every step the results keep the records they had and gain at most one;   *)
(* there is one record per finished file, the i-th for the i-th file of     *)
(* the file list; and a file is started only when the record of the file    *)
(* before it is there, so at most one file is in progress.                  *)
(***************************************************************************)
C22_OutcomeAppendOnly == [][OutcomeStep]_vars

C22_Witness ==
    /\ cmd = "batch" /\ pc = "validate"
    /\ args.max_files = DEFAULT_MAX_FILES
    /\ idx = 4 /\ Len(results) = 3
    /\ ~results[1].success /\ results[3].success
    /\ \A i \in 1..3 : results[i].input_file = files_to_convert[i]

Successes == {i \in 1..Len(results) : results[i].success}
Failures == {i \in 1..Len(results) : ~results[i].success}

(***************************************************************************)
(* C23: the aggregates of a batch agree with its records, under both        *)
(* policies and in every state: the counter of successes is the number of   *)
(* successful records, total minus successes is the number of failed        *)
(* records, and the total is the number of files attempted: all of the      *)
(* list when the run continues on error or nothing failed, and the files    *)
(* up to and including the failing one when the run halted.                 *)
(***************************************************************************)
C23_AggregatesConsistent ==
    (cmd = "batch") =>
        /\ successful_conversions = Cardinality(Successes)
        /\ Len(results) - successful_conversions = Cardinality(Failures)
        /\ Len(results) = Finished
        /\ (pc = "done" /\ Discovered # <<>>) =>
              /\ (args.continue_on_error \/ Failures = {})
                    => Len(results) = Len(files_to_convert)
              /\ (~args.continue_on_error /\ Failures # {})
                    => /\ Failures = {Len(results)}
                       /\ Len(results) = idx
              /\ exit_code = batch_exit_code(Cardinality(Failures), args)

C23_Witness ==
    /\ cmd = "batch" /\ pc = "done" /\ ~args.continue_on_error
    /\ Len(files_to_convert) = 3
    /\ Len(results) = 3
    /\ successful_conversions = 2
    /\ Failures = {3}

\* The other policy: a finished run with successes and failures mixed.
C23_ContinuedReached ==
    /\ cmd = "batch" /\ pc = "done" /\ args.continue_on_error
    /\ Len(results) = 4
    /\ Failures = {1, 2, 4}
    /\ successful_conversions = 1

\* The converter raised for the file at position i of the batch.
ConverterRaised(i) == \E n \in CallsOf(i, ConverterMethods) : calls[n].out = Raised

(***************************************************************************)
(* C24: an exception of a converter stays with its file.  The file of a     *)
(* batch whose converter raised gets, in the same step, a failed record     *)
(* with the converter's error text; no transform and no save is run for     *)
(* it; the loop goes on: with --continue-on-error the next file is          *)
(* validated like any other, without it the run ends with its statistics    *)
(* and exit code 1.                                                         *)
(***************************************************************************)
C24_ConverterFailureContained ==
    (cmd = "batch") =>
        \A i \in 1..idx :
            ConverterRaised(i) =>
                /\ Len(results) >= i
                /\ ~results[i].success
                /\ results[i].error = "converter error"
                /\ results[i].input_file = files_to_convert[i]
                /\ CallsOf(i, PostTransforms \cup {"save_output"}) = {}
                /\ pc \in {"loop", "summary", "done"} \/ idx > i
                /\ ~args.continue_on_error =>
                      /\ idx = i
                      /\ pc \in {"summary", "done"}
                      /\ pc = "done" => exit_code = 1
                /\ args.continue_on_error =>
                      /\ pc # "summary"
                      /\ idx > i => Ran(i + 1, "validate_input_file") \/ pc = "validate"
                      /\ pc = "done" =>
                            /\ exit_code = 0
                            /\ Len(results) = Len(files_to_convert)

C24_Witness ==
    /\ cmd = "batch" /\ pc = "done" /\ args.continue_on_error
    /\ Len(results) = 3
    /\ ConverterRaised(1)
    /\ results[1].error = "converter error"
    /\ results[2].success /\ results[3].success
    /\ Cardinality(NewFiles) = 2

\* A transform raised for the file at position i.
TransformRaised(i) == \E n \in CallsOf(i, PostTransforms) : calls[n].out = Raised

(***************************************************************************)
(* C25: a selected transform that raises fails its file.  In a batch the    *)
(* file gets a failed record, the single-file command ends with exit code   *)
(* 1 and without its success message; no save is run for the file, and no   *)
(* file of the output directory holds its markdown, transformed or not.     *)
(***************************************************************************)
C25_TransformFailureNotSilent ==
    (cmd \in {"convert", "batch"}) =>
        \A i \in Positions :
            TransformRaised(i) =>
                /\ \A n \in CallsOf(i, PostTransforms) :
                      calls[n].out = Raised => \A m \in AllCallsOf(i) : m <= n
                /\ CallsOf(i, {"save_output"}) = {}
                /\ \A p \in NewFiles : fsys.files[p].doc # FileAt(i)
                /\ cmd = "batch" =>
                      /\ Len(results) >= i
                      /\ ~results[i].success
                      /\ results[i].error = "post-processor error"
                      /\ results[i].output_file = NA
                /\ cmd = "convert" =>
                      /\ pc = "done"
                      /\ exit_code = 1
                      /\ "success" \notin printed

C25_Witness ==
    /\ cmd = "convert" /\ pc = "done" /\ exit_code = 1
    /\ args.ocr_images /\ args.convert_math_to_latex
    /\ \E n \in CallsOf(0, {"ocr_images"}) : calls[n].out # Raised
    /\ calls[Len(calls)].op = "convert_plain_math_to_latex"
    /\ calls[Len(calls)].out = Raised
    /\ NewFiles = {}

\* The batch case of C25: the file after the failed one is converted and saved.
C25_BatchReached ==
    /\ cmd = "batch" /\ pc = "done"
    /\ TransformRaised(1) /\ ~results[1].success
    /\ Len(results) > 1 /\ results[2].success

\* The entries within reach of a discovery: the directory's own, or with
\* recursive those of the whole tree below it.
WithinReach(dir, recursive) ==
    UNION {InputDirs[d] : d \in IF recursive
                                 THEN DirsWithin({dir}, Cardinality(DOMAIN SubDirs))
                                 ELSE {dir}}

\* The regular files within reach that the classifier gives a document type.
Classified(dir, recursive) ==
    {e \in WithinReach(dir, recursive) :
        /\ Entry[e].kind = "file"
        /\ detect_document_type(Entry[e]) \in DOMAIN SUPPORTED_EXTENSIONS}

(***************************************************************************)
(* C26: discovery is complete with respect to classification.  Every        *)
(* regular file within reach of a scan or a batch that                      *)
(* detect_document_type classifies as excel, word or powerpoint, whatever   *)
(* the letter case of its extension, is among the files that                *)
(* find_files_in_directory returned; so is every file that the single-file  *)
(* command's validation accepts.                                            *)
(***************************************************************************)
C26_DiscoveryComplete ==
    /\ (cmd = "scan" /\ DirKind[args.input] = "dir") =>
          Classified(args.input, args.recursive) \subseteq {files[i] : i \in DOMAIN files}
    /\ (cmd = "batch") =>
          \A e \in WithinReach(args.input, args.recursive) :
              validate_input_file(Entry[e]).ok =>
                  \E i \in DOMAIN Discovered : Discovered[i] = e

\* How the code departs from C26: a scan that has skipped REPORT.XLSX.
C26_UpperCaseSkippedReached ==
    /\ cmd = "scan" /\ pc = "done" /\ exit_code = 0
    /\ args.input = "mixed"
    /\ Entry[1].ext = ".XLSX" /\ detect_document_type(Entry[1]) = "excel"
    /\ validate_input_file(Entry[1]).ok
    /\ 1 \in InputDirs[args.input]
    /\ \A i \in DOMAIN files : files[i] # 1

\* Where C26's statement holds: the tree whose extensions are all lower-case.
C26_LowerCaseCompleteReached ==
    /\ cmd = "scan" /\ args.input = "nodocs" /\ args.recursive
    /\ Classified(args.input, args.recursive) = {files[i] : i \in DOMAIN files}
    /\ Len(files) = 2

NoConverterMessage == "No converter available for document type"

(***************************************************************************)
(* C27: validation implies a converter.  A path that validate_input_file    *)
(* accepts is classified excel, word or powerpoint, never unknown, and the  *)
(* commands hold a converter for that type; so no file of a convert or a    *)
(* batch fails for lack of a converter after its validation succeeded:      *)
(* a validated file always goes on to the resolution of its output path.    *)
(***************************************************************************)
C27_ValidationImpliesConverter ==
    /\ (cmd = "info" /\ pc # "validate" /\ is_valid.ok) =>
          /\ detect_document_type(args.input) \in DOMAIN SUPPORTED_EXTENSIONS
          /\ HasConverter(detect_document_type(args.input))
          /\ pc = "done" => doc_type = detect_document_type(args.input)
    /\ (cmd \in {"convert", "batch"}) =>
          /\ \A i \in 1..Len(results) : results[i].error # NoConverterMessage
          /\ \A i \in Positions :
                (validate_input_file(Entry[FileAt(i)]).ok
                    /\ ~(i = Pos /\ pc \in {"validate", "classify", "resolve"}))
                    => /\ Ran(i, "create_output_path")
                       /\ HasConverter(detect_document_type(Entry[FileAt(i)]))

C27_Witness ==
    /\ cmd = "info" /\ pc = "done"
    /\ args.input.ext = ".Xlsx"
    /\ is_valid.ok
    /\ doc_type = "excel"
    /\ "supported" \in printed

\* The pipeline case of C27: an upper-case extension past the converter lookup.
C27_PipelineReached ==
    /\ cmd = "convert" /\ pc = "convert"
    /\ Entry[args.input].ext = ".XLSX"
    /\ doc_type = "excel"

(***************************************************************************)
(* C28: every path that find_files_in_directory returned is classified      *)
(* excel, word or powerpoint by detect_document_type, never unknown; the    *)
(* grouping of the scan command finds a group for each file, and a scan     *)
(* that found files ends with its summary and exit code 0.                  *)
(***************************************************************************)
C28_DiscoveredAreClassified ==
    /\ (cmd = "scan") =>
          /\ \A i \in DOMAIN files :
                detect_document_type(Entry[files[i]]) \in DOMAIN SUPPORTED_EXTENSIONS
          /\ pc = "done" =>
                /\ exit_code = 0
                /\ printed = IF files = <<>> THEN {"no_files_warning"} ELSE {"summary"}
    /\ (cmd = "batch") =>
          \A i \in DOMAIN files_to_convert :
              detect_document_type(Entry[files_to_convert[i]])
                  \in DOMAIN SUPPORTED_EXTENSIONS

C28_Witness ==
    /\ cmd = "scan" /\ pc = "done" /\ exit_code = 0
    /\ args.input = "mixed"
    /\ Len(files) = 4
    /\ Entry[files[2]].kind = "dir"
    /\ Entry[files[4]].ext = ".xls"
    /\ printed = {"summary"}

\* The content handed to save_output for the file at position i.
SavedContent(i) == {calls[n].in : n \in CallsOf(i, {"save_output"})}

(***************************************************************************)
(* C29: within one batch run the output paths of the successful results     *)
(* are pairwise distinct, also for input files that share a stem: a path    *)
(* is resolved only after the saves of all earlier files, it names no file   *)
(* that existed then, and the output of every successful result still holds *)
(* the content that was saved for it.                                        *)
(***************************************************************************)
C29_OutputPathsDistinct ==
    (cmd = "batch") =>
        /\ \A i, j \in Successes :
              i # j => results[i].output_file # results[j].output_file
        /\ \A i \in Successes :
              /\ results[i].output_file \notin DOMAIN fsys0.files
              /\ Exists(fsys, results[i].output_file)
              /\ SavedContent(i) = {fsys.files[results[i].output_file]}
        /\ \A n \in DOMAIN calls :
              calls[n].op = "create_output_path" =>
                  \A m \in DOMAIN calls :
                      (calls[m].op = "save_output" /\ calls[m].pos < calls[n].pos)
                          => m < n

C29_Witness ==
    /\ cmd = "batch" /\ pc = "done"
    /\ args.input = "same"
    /\ Successes = {1, 2, 3}
    /\ \A i \in Successes : Entry[results[i].input_file].stem = Stem("report", <<>>)
    /\ results[1].output_file.nums = <<>>
    /\ results[2].output_file.nums = <<1>>
    /\ results[3].output_file.nums = <<2>>

C29_SubdirectoriesReached ==
    /\ cmd = "batch" /\ pc = "done"
    /\ args.recursive
    /\ Successes = {1, 2}
    /\ Entry[results[1].input_file].ext = Entry[results[2].input_file].ext
    /\ Entry[results[1].input_file].stem = Entry[results[2].input_file].stem
    /\ results[1].output_file # results[2].output_file

\* The pipeline attempts of the run: each starts with validate_input_file.
Attempts == {n \in DOMAIN calls : calls[n].op = "validate_input_file"}

\* The candidates the search of create_output_path tested to arrive at path p.
Tried(stem, p) == IF p.nums = stem.nums THEN 1 ELSE p.nums[Len(p.nums)] + 1

\* A step that resolves an output path.
ResolveStep ==
    /\ Len(calls') = Len(calls) + 1
    /\ calls'[Len(calls')].op = "create_output_path"

BatchAttemptsBounded ==
    (cmd = "batch") =>
        /\ idx <= Len(files_to_convert)
        /\ Len(results) <= idx
        /\ Cardinality(Attempts) <= idx
        /\ \A i \in 1..idx : Cardinality(CallsOf(i, {"validate_input_file"})) <= 1
        /\ pc = "done" => Cardinality(Attempts) = idx /\ Len(results) = idx

SuffixSearchBounded ==
    ResolveStep =>
        Tried(Entry[FileAt(Pos)].stem, output_file')
            <= Cardinality(DOMAIN fsys.files) + 1

(***************************************************************************)
(* C30: when every call returns, a batch over N files reaches its final     *)
(* statistics, after at most N pipeline attempts under either policy, one   *)
(* per file started; and the search of create_output_path for a free name   *)
(* ends after at most (number of files in the output directory + 1)         *)
(* candidates.                                                              *)
(***************************************************************************)
C30_Termination ==
    /\ []BatchAttemptsBounded
    /\ [][SuffixSearchBounded]_vars
    /\ (cmd = "batch") ~> (cmd = "batch" /\ pc = "done")

C30_Witness ==
    /\ cmd = "batch" /\ pc = "done"
    /\ args.continue_on_error
    /\ Len(files_to_convert) = 4
    /\ Cardinality(Attempts) = 4
    /\ Len(results) = 4
    /\ Failures # {}
    /\ Cardinality(DOMAIN fsys0.files) = 6
    /\ \E i \in Successes : results[i].output_file.nums = <<2>>

C30_HaltedReached ==
    /\ cmd = "batch" /\ pc = "done"
    /\ ~args.continue_on_error
    /\ Len(files_to_convert) = 4
    /\ Cardinality(Attempts) = 1
    /\ exit_code = 1

====
